---- MODULE Spec2Model ----
(***************************************************************************)
(* Model of .github/workflows/changelog.py (bogdan-d/serpentine): the tag   *)
(* selector, the package-group reconciler, the diff engine, the registry    *)
(* adapter with its retry loop, and the orchestration in main.              *)
(*                                                                          *)
(* Text is modelled as sequences of one-character strings, so that prefix   *)
(* patterns, suffix tests, substring tests and Python's code-point string   *)
(* order are computed rather than assumed.                                  *)
(***************************************************************************)
EXTENDS Integers, Sequences, FiniteSets, TLC

VARIABLES
    pc,                       \* position of the running function
    target,                   \* channel argument
    manifests,                \* dict image -> manifest (current channel)
    prev_manifests,           \* dict image -> manifest (previous tag)
    tags,                     \* outcome of get_tags
    pkgs, prev, curr,         \* arguments of calculate_changes
    changes,                  \* outcome of calculate_changes
    groups,                   \* outcome of get_package_groups
    ref, i, output, log, ret, \* inspect_image: argument, loop index, stdout, calls made, return value
    calls,                    \* inspect_image calls completed
    args,                     \* main: which output paths were given
    upstream_curr_manifests,  \* main: dict upstream image -> manifest (channel)
    upstream_prev_manifests,  \* main: dict upstream image -> manifest (previous tag)
    upstream_curr,            \* get_upstream_section: the current manifests it used
    upstream_prev,            \* get_upstream_section: the previous manifests it used
    git,                      \* get_commits: what "git log" printed, None if it failed or did not run
    generated,                \* main: (title, changelog) of generate_changelog
    files,                    \* the files written so far
    inspected                 \* the references inspect_image was called with, in order

vars == <<pc, target, manifests, prev_manifests, tags, pkgs, prev, curr, changes, groups,
          ref, i, output, log, ret, calls, args, upstream_curr_manifests,
          upstream_prev_manifests, upstream_curr, upstream_prev, git, generated, files,
          inspected>>

(***************************************************************************)
(* Bounds of the checked instances.                                         *)
(***************************************************************************)
NumTags == 6
MaxLen == 3
NumVersions == 4
NumPkgNames == 3
MaxCalls == 2

(***************************************************************************)
(* Text helpers.                                                            *)
(***************************************************************************)
\* The characters used by the model, in increasing code-point order.
Alphabet ==
    << "-", ".", "/", "0", "1", "2", "3", "4", "5", "6", "7", "8", "9",
       "a", "b", "c", "d", "e", "f", "g", "h", "i", "j", "k", "l", "m",
       "n", "o", "p", "q", "r", "s", "t", "u", "v", "w", "x", "y", "z" >>

Ord(c) == CHOOSE k \in 1..Len(Alphabet) : Alphabet[k] = c

IsDigit(c) == c \in {"0", "1", "2", "3", "4", "5", "6", "7", "8", "9"}

Min(a, b) == IF a < b THEN a ELSE b

\* Python's str.__lt__: the first differing character decides, a proper prefix is smaller.
StrLess(s, t) ==
    \E k \in 0..Min(Len(s), Len(t)) :
        /\ \A j \in 1..k : s[j] = t[j]
        /\ \/ k = Len(s) /\ k < Len(t)
           \/ k < Len(s) /\ k < Len(t) /\ Ord(s[k + 1]) < Ord(t[k + 1])

\* sorted() of a set of strings.
RECURSIVE sorted(_)
sorted(S) ==
    IF S = {} THEN << >>
    ELSE LET m == CHOOSE x \in S : \A y \in S \ {x} : StrLess(x, y)
         IN  <<m>> \o sorted(S \ {m})

\* str.endswith
EndsWith(s, suffix) ==
    /\ Len(s) >= Len(suffix)
    /\ \A j \in 1..Len(suffix) : s[Len(s) - Len(suffix) + j] = suffix[j]

\* str.startswith
StartsWith(s, prefix) ==
    /\ Len(s) >= Len(prefix)
    /\ \A j \in 1..Len(prefix) : s[j] = prefix[j]

\* The Python test "sub in s" on strings.
Contains(s, sub) ==
    \E k \in 0..(Len(s) - Len(sub)) : \A j \in 1..Len(sub) : s[k + j] = sub[j]

Range(s) == {s[k] : k \in 1..Len(s)}

SeqsUpTo(S, n) == UNION {[1..m -> S] : m \in 0..n}

(***************************************************************************)
(* Program constants.                                                       *)
(***************************************************************************)
BASE_IMAGE_NAME == <<"s", "e", "r", "p", "e", "n", "t", "i", "n", "e">>

IMAGES == << BASE_IMAGE_NAME, BASE_IMAGE_NAME \o <<"-", "n", "v", "i", "d", "i", "a">> >>

UPSTREAM_IMAGE ==
    <<"u", "b", "l", "u", "e", "-", "o", "s", "/",
      "b", "a", "z", "z", "i", "t", "e", "-", "d", "e", "c", "k">>

RETRIES == 3
RETRY_WAIT == 5

AUTHOR == <<"b", "o", "g", "d", "a", "n", "-", "d">>

UPSTREAM_REGISTRY ==
    <<"d", "o", "c", "k", "e", "r", ":", "/", "/", "g", "h", "c", "r", ".", "i", "o", "/">>

REGISTRY == UPSTREAM_REGISTRY \o AUTHOR \o <<"/">>

kernel == <<"k", "e", "r", "n", "e", "l">>

BLACKLIST_VERSIONS ==
    << kernel,
       <<"m", "e", "s", "a", "-", "f", "i", "l", "e", "s", "y", "s", "t", "e", "m">>,
       <<"g", "a", "m", "e", "s", "c", "o", "p", "e">>,
       <<"p", "l", "a", "s", "m", "a", "-", "d", "e", "s", "k", "t", "o", "p">>,
       <<"a", "t", "h", "e", "r", "o", "s", "-", "f", "i", "r", "m", "w", "a", "r", "e">> >>

OTHER_NAMES == <<"desktop", "deck", "kde", "nvidia">>

stable == <<"s", "t", "a", "b", "l", "e">>

\* None, and a present value v, as Python's dict.get(key, None) returns them.
None == << >>
Some(v) == <<v>>
Get(d, k) == IF k \in DOMAIN d THEN Some(d[k]) ELSE None

\* Iteration order of the dicts keyed by image: insertion order, which is IMAGES order
\* (get_manifests) or the single upstream key (get_upstream_manifests).
DictOrder == IMAGES \o <<UPSTREAM_IMAGE>>

KeyIndex(k) == CHOOSE n \in 1..Len(DictOrder) : DictOrder[n] = k

\* next(iter(d.values())) of a non-empty dict
FirstValue(d) ==
    d[CHOOSE k \in DOMAIN d : \A k2 \in DOMAIN d : KeyIndex(k) <= KeyIndex(k2)]

(***************************************************************************)
(* Tag Selector: get_tags.                                                  *)
(***************************************************************************)
\* re.match(STABLE_START_PATTERN, tag) with the pattern \d\d\.\d (a prefix match)
STABLE_START_PATTERN(tag) ==
    /\ Len(tag) >= 4
    /\ IsDigit(tag[1]) /\ IsDigit(tag[2]) /\ tag[3] = "." /\ IsDigit(tag[4])

\* re.match(OTHER_START_PATTERN(target), tag) with the pattern <target>-\d\d\.\d
OTHER_START_PATTERN(tgt, tag) ==
    /\ StartsWith(tag, tgt \o <<"-">>)
    /\ STABLE_START_PATTERN(SubSeq(tag, Len(tgt) + 2, Len(tag)))

\* The excluded suffix test of the first loop.
ExcludedSuffix(tag) == EndsWith(tag, <<".", "0">>)

\* First loop: the reference tags taken from one manifest.
ReferenceTags(tgt, first) ==
    {tag \in first.RepoTags :
        /\ ~ExcludedSuffix(tag)
        /\ IF tgt # stable THEN OTHER_START_PATTERN(tgt, tag)
                           ELSE STABLE_START_PATTERN(tag)}

\* The second loop left out: only the reference manifest is looked at.
CommonTagsFirstOnly(S, ms) == S

\* Second loop: remove tags not present in all images.
CommonTags(S, ms) ==
    {tag \in S : \A k \in DOMAIN ms : tag \in ms[k].RepoTags}

\* The order sorted() puts two tags in.
TagLess(s, t) == StrLess(s, t)

RECURSIVE SortTags(_)
SortTags(S) ==
    IF S = {} THEN << >>
    ELSE LET m == CHOOSE x \in S : \A y \in S \ {x} : TagLess(x, y)
         IN  <<m>> \o SortTags(S \ {m})

get_tags(tgt, ms) ==
    IF DOMAIN ms = {} THEN [ok |-> FALSE, error |-> "StopIteration"]
    ELSE LET ts == SortTags(CommonTags(ReferenceTags(tgt, FirstValue(ms)), ms))
         IN  IF Len(ts) >= 2
             THEN [ok |-> TRUE, prev |-> ts[Len(ts) - 1], curr |-> ts[Len(ts)]]
             ELSE [ok |-> FALSE, error |-> "AssertionError"]

(***************************************************************************)
(* Inputs of the tag selector instance.                                     *)
(***************************************************************************)
dev == <<"d", "e", "v">>

Targets == {stable, dev}

TagPool ==
    << <<"2", "3", ".", "9">>,
       <<"2", "3", ".", "1", "0">>,
       <<"2", "3", ".", "1", "0", ".", "0">>,
       <<"d", "e", "v", "-", "2", "3", ".", "1">>,
       <<"d", "e", "v", "-", "2", "3", ".", "2">>,
       <<"2", "3", ".", "1", "1">>,
       <<"d", "e", "v", "-", "2", "3", ".", "2", ".", "0">>,
       stable >>

Tags == {TagPool[n] : n \in 1..Min(NumTags, Len(TagPool))}

NoLabels == << >>

TagManifests == {[RepoTags |-> T, Labels |-> NoLabels] : T \in SUBSET Tags}

TagManifestDicts == UNION {[K -> TagManifests] : K \in SUBSET Range(IMAGES)}

\* Values of the variables a specification does not use.
IdleTags == target = None /\ tags = None
IdleDiff == pkgs = << >> /\ prev = << >> /\ curr = << >> /\ changes = None
IdleGroups == prev_manifests = << >> /\ groups = None
IdleMain ==
    /\ args = None /\ upstream_curr_manifests = << >> /\ upstream_prev_manifests = << >>
    /\ upstream_curr = << >> /\ upstream_prev = << >> /\ git = None /\ generated = None
    /\ files = << >> /\ inspected = << >>
IdleInspect == ref = None /\ i = 0 /\ output = None /\ log = << >> /\ ret = None /\ calls = 0

varsTags == <<target, tags>>
varsDiff == <<pkgs, prev, curr, changes>>
varsGroups == <<prev_manifests, groups>>
varsInspect == <<ref, i, output, log, ret, calls>>
varsMain == <<args, upstream_curr_manifests, upstream_prev_manifests, upstream_curr,
              upstream_prev, git, generated, files, inspected>>

InitTags ==
    /\ pc = "get_tags"
    /\ target \in Targets
    /\ manifests \in TagManifestDicts
    /\ tags = None
    /\ IdleDiff /\ IdleGroups /\ IdleInspect /\ IdleMain

\* One call get_tags(target, manifests): it returns the pair or raises.
GetTags ==
    /\ pc = "get_tags"
    /\ tags' = get_tags(target, manifests)
    /\ pc' = IF tags'.ok THEN "tags_done" ELSE "tags_raised"
    /\ UNCHANGED <<target, manifests, varsDiff, varsGroups, varsInspect, varsMain>>

NextTags == GetTags

SpecTags == InitTags /\ [][NextTags]_vars

(***************************************************************************)
(* Diff Engine: calculate_changes.                                          *)
(***************************************************************************)
\* blacklist_ver as first built: curr.get(v, None) of every anchor package.
InitialBlacklist(cur) ==
    {Get(cur, BLACKLIST_VERSIONS[n]) : n \in 1..Len(BLACKLIST_VERSIONS)}

\* The "continue" tests without the one on the previous version.
SkippedCurrentOnly(pkg, prv, cur, blacklist_ver) ==
    \/ pkg \in Range(BLACKLIST_VERSIONS)
    \/ pkg \in DOMAIN cur /\ Get(cur, pkg) \in blacklist_ver

\* The three "continue" tests that open the loop body.
Skipped(pkg, prv, cur, blacklist_ver) ==
    \/ pkg \in Range(BLACKLIST_VERSIONS)
    \/ pkg \in DOMAIN cur /\ Get(cur, pkg) \in blacklist_ver
    \/ pkg \in DOMAIN prv /\ Get(prv, pkg) \in blacklist_ver

\* The if/elif chain: which list, if any, the package is appended to.
Classify(pkg, prv, cur) ==
    IF pkg \notin DOMAIN prv THEN "added"
    ELSE IF pkg \notin DOMAIN cur THEN "removed"
    ELSE IF prv[pkg] # cur[pkg] THEN "changed"
    ELSE "unreported"

\* The loop body without its two blacklist_ver.add calls.
SuppressNothing(blacklist_ver, pkg, prv, cur) == blacklist_ver

\* The two blacklist_ver.add calls that close the loop body.
Suppress(blacklist_ver, pkg, prv, cur) ==
    blacklist_ver \cup {Get(cur, pkg), Get(prv, pkg)}

\* One iteration of the loop over pkgs.
LoopBody(st, pkg, prv, cur) ==
    IF Skipped(pkg, prv, cur, st.blacklist_ver) THEN st
    ELSE LET c == Classify(pkg, prv, cur)
         IN  [added |-> IF c = "added" THEN Append(st.added, pkg) ELSE st.added,
              changed |-> IF c = "changed" THEN Append(st.changed, pkg) ELSE st.changed,
              removed |-> IF c = "removed" THEN Append(st.removed, pkg) ELSE st.removed,
              blacklist_ver |-> Suppress(st.blacklist_ver, pkg, prv, cur)]

\* The locals after the first k iterations.
RECURSIVE Loop(_, _, _, _)
Loop(ps, prv, cur, k) ==
    IF k = 0
    THEN [added |-> << >>, changed |-> << >>, removed |-> << >>,
          blacklist_ver |-> InitialBlacklist(cur)]
    ELSE LoopBody(Loop(ps, prv, cur, k - 1), ps[k], prv, cur)

\* The rows of the returned text; an empty cell is the empty string.
PATTERN_ADD(name, version) == [mark |-> "add", name |-> name, prev |-> << >>, new |-> version]
PATTERN_CHANGE(name, p, n) == [mark |-> "change", name |-> name, prev |-> p, new |-> n]
PATTERN_REMOVE(name, version) == [mark |-> "remove", name |-> name, prev |-> version, new |-> << >>]

\* The output loops with the changed rows written before the added rows.
RenderChangedFirst(st, prv, cur) ==
    [k \in 1..Len(st.changed) |->
            PATTERN_CHANGE(st.changed[k], prv[st.changed[k]], cur[st.changed[k]])]
    \o [k \in 1..Len(st.added) |-> PATTERN_ADD(st.added[k], cur[st.added[k]])]
    \o [k \in 1..Len(st.removed) |-> PATTERN_REMOVE(st.removed[k], prv[st.removed[k]])]

\* The three output loops, in the order the code runs them.
Render(st, prv, cur) ==
    [k \in 1..Len(st.added) |-> PATTERN_ADD(st.added[k], cur[st.added[k]])]
    \o [k \in 1..Len(st.changed) |->
            PATTERN_CHANGE(st.changed[k], prv[st.changed[k]], cur[st.changed[k]])]
    \o [k \in 1..Len(st.removed) |-> PATTERN_REMOVE(st.removed[k], prv[st.removed[k]])]

\* calculate_changes: the text, with the three lists it was built from, or the
\* KeyError of curr[pkg] for an "added" name that curr does not hold.
calculate_changes(ps, prv, cur) ==
    LET st == Loop(ps, prv, cur, Len(ps))
    IN  IF \E k \in 1..Len(st.added) : st.added[k] \notin DOMAIN cur
        THEN [raised |-> TRUE, error |-> "KeyError"]
        ELSE [raised |-> FALSE, added |-> st.added, changed |-> st.changed,
              removed |-> st.removed, out |-> Render(st, prv, cur)]

(***************************************************************************)
(* Inputs of the diff engine instance.  calculate_changes compares version  *)
(* strings only for equality, so the version maps are drawn up to a         *)
(* renaming of the version strings: versions are numbered in the order of   *)
(* their first use, over the anchor's current version and the previous and  *)
(* current version of every package of the universe.                        *)
(***************************************************************************)
foo == <<"f", "o", "o">>
bar == <<"b", "a", "r">>
baz == <<"b", "a", "z">>

DiffPkgs == <<foo, bar, baz>>

DiffNames == Range(DiffPkgs) \cup {kernel}

VersionPool ==
    << <<"6", ".", "2">>, <<"1", ".", "0">>, <<"1", ".", "1">>, <<"2", ".", "0">>,
       <<"6", ".", "1">>, <<"3", ".", "0">>, <<"3", ".", "1">> >>

Max(a, b) == IF a > b THEN a ELSE b

RECURSIVE MaxOf(_)
MaxOf(s) == IF s = << >> THEN 0 ELSE Max(s[Len(s)], MaxOf(SubSeq(s, 1, Len(s) - 1)))

\* Version choices for n slots: 0 is "absent", k > 0 is VersionPool[k].
RECURSIVE VersionChoices(_)
VersionChoices(n) ==
    IF n = 0 THEN {<< >>}
    ELSE UNION {{Append(s, x) : x \in 0..Min(Min(NumVersions, Len(VersionPool)), MaxOf(s) + 1)} :
                s \in VersionChoices(n - 1)}

Choices == [n \in {1, 3, 5, 7} |-> VersionChoices(n)]

\* The packages of the universe, in DiffPkgs order.
Present(ps) == SelectSeq(DiffPkgs, LAMBDA n : n \in Range(ps))

\* The map that gives key ks[k] the version chosen in slot slot[k].
MapOf(ks, c, slot) ==
    [n \in {ks[k] : k \in {j \in 1..Len(ks) : c[slot[j]] # 0}} |->
        VersionPool[c[slot[CHOOSE k \in 1..Len(ks) : ks[k] = n]]]]

\* The version maps drawn for a universe whose packages are ks.
VersionMaps ==
    [ks \in {Present(ps) : ps \in SeqsUpTo(Range(DiffPkgs), Len(DiffPkgs))} |->
        {[prev |-> MapOf(ks, c, [k \in 1..Len(ks) |-> 2 * k]),
          curr |-> MapOf(<<kernel>> \o ks, c,
                         [k \in 1..(Len(ks) + 1) |-> IF k = 1 THEN 1 ELSE 2 * k - 1])] :
            c \in Choices[2 * Len(ks) + 1]}]

InitDiff ==
    /\ pc = "calculate_changes"
    /\ pkgs \in SeqsUpTo(DiffNames, MaxLen)
    /\ \E m \in VersionMaps[Present(pkgs)] : prev = m.prev /\ curr = m.curr
    /\ changes = None
    /\ manifests = << >>
    /\ IdleTags /\ IdleGroups /\ IdleInspect /\ IdleMain

\* One call calculate_changes(pkgs, prev, curr) that returns its text.
CalculateChanges ==
    /\ pc = "calculate_changes"
    /\ ~calculate_changes(pkgs, prev, curr).raised
    /\ changes' = calculate_changes(pkgs, prev, curr)
    /\ pc' = "changes_done"
    /\ UNCHANGED <<pkgs, prev, curr, manifests, varsTags, varsGroups, varsInspect, varsMain>>

\* The same call ending in the KeyError of the first output loop.
CalculateChangesRaises ==
    /\ pc = "calculate_changes"
    /\ calculate_changes(pkgs, prev, curr).raised
    /\ changes' = calculate_changes(pkgs, prev, curr)
    /\ pc' = "changes_raised"
    /\ UNCHANGED <<pkgs, prev, curr, manifests, varsTags, varsGroups, varsInspect, varsMain>>

NextDiff == CalculateChanges \/ CalculateChangesRaises

SpecDiff == InitDiff /\ [][NextDiff]_vars

(***************************************************************************)
(* Package Extractor and Group Reconciler: get_images, get_packages,        *)
(* get_package_groups.                                                      *)
(***************************************************************************)
deck == <<"d", "e", "c", "k">>
desktop == <<"d", "e", "s", "k", "t", "o", "p">>
gnome == <<"g", "n", "o", "m", "e">>
kde == <<"k", "d", "e">>
nvidia == <<"n", "v", "i", "d", "i", "a">>

\* get_images: the (img, base, de) triples, in IMAGES order.
get_images ==
    [k \in 1..Len(IMAGES) |->
        [img |-> IMAGES[k],
         base |-> IF Contains(IMAGES[k], deck) THEN deck ELSE desktop,
         de |-> IF Contains(IMAGES[k], gnome) THEN gnome ELSE kde]]

RECHUNK_INFO == "dev.hhd.rechunk.info"
REVISION == "org.opencontainers.image.revision"

\* json.loads(manifest["Labels"][RECHUNK_INFO])["packages"] succeeds: the label is
\* there, it is JSON, and the JSON has the key "packages".
PackagesReadable(manifest) ==
    /\ RECHUNK_INFO \in DOMAIN manifest.Labels
    /\ manifest.Labels[RECHUNK_INFO].json

\* get_packages: the package map of every image whose label could be read.
get_packages(ms) ==
    [img \in {k \in DOMAIN ms : PackagesReadable(ms[k])} |->
        ms[img].Labels[RECHUNK_INFO].packages]

\* pkg: per image, the names of its current and previous packages.
Universes(prv, ms) ==
    LET np == get_packages(ms)
        pp == get_packages(prv)
    IN  [k \in DOMAIN np \cup DOMAIN pp |->
            (IF k \in DOMAIN np THEN DOMAIN np[k] ELSE {})
            \cup (IF k \in DOMAIN pp THEN DOMAIN pp[k] ELSE {})]

\* The "continue" tests of the second loop pass: the image counts for group t.
GroupTakes(t, im) ==
    /\ ~(t = "nvidia" /\ ~Contains(im.base, nvidia))
    /\ ~(t = "kde" /\ im.de # kde)
    /\ ~(t = "gnome" /\ im.de # gnome)
    /\ ~(t = "deck" /\ im.base # deck)
    /\ ~(t = "desktop" /\ im.base = deck)

\* The first image of a group adding all its names: "if p not in common" left out.
GroupSeedAll(names, common) == names

\* The first image of a group: its names that are not in common are added.
GroupSeed(names, common) == names \ common

\* The else branch of both loops: every later image removes the names it lacks.
Prune(seed, ims, pkg) ==
    {p \in seed : \A k \in 2..Len(ims) : p \in pkg[ims[k].img]}

get_package_groups(prv, ms) ==
    LET pkg == Universes(prv, ms)
        present == SelectSeq(get_images, LAMBDA im : im.img \in DOMAIN pkg)
        common == IF present = << >> THEN {}
                  ELSE Prune(pkg[present[1].img], present, pkg)
        other(t) == LET ims == SelectSeq(present, LAMBDA im : GroupTakes(t, im))
                    IN  IF ims = << >> THEN {}
                        ELSE Prune(GroupSeed(pkg[ims[1].img], common), ims, pkg)
    IN  [common |-> sorted(common),
         others |-> [t \in Range(OTHER_NAMES) |-> sorted(other(t))]]

(***************************************************************************)
(* Inputs of the group reconciler instance.                                 *)
(***************************************************************************)
PkgNamePool == << <<"x">>, <<"y">>, <<"z">>, <<"w">>, <<"v">> >>

GroupPkgNames == {PkgNamePool[n] : n \in 1..Min(NumPkgNames, Len(PkgNamePool))}

\* A manifest whose package label lists the names N, and one whose label is not JSON.
ManifestOf(N) ==
    [RepoTags |-> {},
     Labels |-> (RECHUNK_INFO :> [json |-> TRUE, packages |-> [n \in N |-> VersionPool[1]]])]

BrokenManifest == [RepoTags |-> {}, Labels |-> (RECHUNK_INFO :> [json |-> FALSE])]

GroupManifests == {ManifestOf(N) : N \in SUBSET GroupPkgNames} \cup {BrokenManifest}

GroupManifestDicts == UNION {[K -> GroupManifests] : K \in SUBSET Range(IMAGES)}

InitGroups ==
    /\ pc = "get_package_groups"
    /\ manifests \in GroupManifestDicts
    /\ prev_manifests \in GroupManifestDicts
    /\ groups = None
    /\ IdleTags /\ IdleDiff /\ IdleInspect /\ IdleMain

\* One call get_package_groups(prev_manifests, manifests).
GetPackageGroups ==
    /\ pc = "get_package_groups"
    /\ groups' = get_package_groups(prev_manifests, manifests)
    /\ pc' = "groups_done"
    /\ UNCHANGED <<manifests, prev_manifests, varsTags, varsDiff, varsInspect, varsMain>>

NextGroups == GetPackageGroups

SpecGroups == InitGroups /\ [][NextGroups]_vars

(***************************************************************************)
(* Manifest Store Adapter: inspect_image.                                   *)
(***************************************************************************)
\* The test that guards time.sleep after a failed attempt at loop index k.
SleepsAfterEveryFailure(k) == k < RETRIES

SleepsAfter(k) == k < RETRIES - 1

\* The calls inspect_image makes: skopeo (with its exit status) and time.sleep
\* (with its delay).
SkopeoCall(status) == [call |-> "skopeo", arg |-> status]
SleepCall == [call |-> "sleep", arg |-> RETRY_WAIT]

\* What skopeo printed: JSON text of a manifest, or text that is not JSON.
Stdout(manifest) == [json |-> TRUE, manifest |-> manifest]
NotJson == [json |-> FALSE]

\* The closing "try: return json.loads(output) / except: return None".
json_loads(out) == IF out[1].json THEN Some(out[1].manifest) ELSE None

\* Entry: output = None, then the first pass of "for i in range(RETRIES)".
InspectImage(r) ==
    /\ ref' = r
    /\ i' = 0
    /\ output' = None
    /\ log' = << >>
    /\ ret' = None
    /\ pc' = "inspect_try"

\* subprocess.run returns: output is set and the loop is left by break.
InspectAttemptSucceeds(stdout) ==
    /\ pc = "inspect_try"
    /\ output' = Some(stdout)
    /\ log' = Append(log, SkopeoCall(0))
    /\ pc' = "inspect_return"
    /\ UNCHANGED <<ref, i, ret, calls>>

\* subprocess.run raises CalledProcessError: sleep before a further attempt, or
\* leave the loop when this was the last one.
InspectAttemptFails ==
    /\ pc = "inspect_try"
    /\ log' = Append(log, SkopeoCall(1))
    /\ pc' = IF SleepsAfter(i) THEN "inspect_sleep"
             ELSE IF i + 1 < RETRIES THEN "inspect_try" ELSE "inspect_return"
    /\ i' = IF SleepsAfter(i) THEN i ELSE i + 1
    /\ UNCHANGED <<ref, output, ret, calls>>

\* time.sleep(RETRY_WAIT) returns and the loop goes on to its next index.
InspectSleep ==
    /\ pc = "inspect_sleep"
    /\ log' = Append(log, SleepCall)
    /\ i' = i + 1
    /\ pc' = IF i + 1 < RETRIES THEN "inspect_try" ELSE "inspect_return"
    /\ UNCHANGED <<ref, output, ret, calls>>

\* After the loop: None without output, else the parsed output (None if not JSON).
InspectReturn ==
    /\ pc = "inspect_return"
    /\ ret' = IF output = None THEN None ELSE json_loads(output)
    /\ calls' = calls + 1
    /\ pc' = "inspect_done"
    /\ UNCHANGED <<ref, i, output, log>>

(***************************************************************************)
(* The adapter instance: up to MaxCalls calls, one after the other.         *)
(***************************************************************************)
Ref(registry, image, tag) == registry \o image \o <<":">> \o tag

InspectRefs ==
    {Ref(REGISTRY, IMAGES[k], stable) : k \in 1..Len(IMAGES)}
    \cup {Ref(UPSTREAM_REGISTRY, UPSTREAM_IMAGE, stable)}

x == PkgNamePool[1]

InspectStdouts == {Stdout(ManifestOf({})), Stdout(ManifestOf({x})), NotJson}

InitInspect ==
    /\ pc = "inspect_idle"
    /\ IdleInspect
    /\ manifests = << >>
    /\ IdleTags /\ IdleDiff /\ IdleGroups /\ IdleMain

InspectCall ==
    /\ pc \in {"inspect_idle", "inspect_done"}
    /\ calls < MaxCalls
    /\ \E r \in InspectRefs : InspectImage(r)
    /\ UNCHANGED calls

InspectOk == \E stdout \in InspectStdouts : InspectAttemptSucceeds(stdout)

NextInspect ==
    /\ \/ InspectCall
       \/ InspectOk
       \/ InspectAttemptFails
       \/ InspectSleep
       \/ InspectReturn
    /\ UNCHANGED <<manifests, varsTags, varsDiff, varsGroups, varsMain>>

SpecInspect == InitInspect /\ [][NextInspect]_vars

(***************************************************************************)
(* Changelog Orchestrator: get_manifests, get_upstream_manifests,           *)
(* get_versions, get_commits, get_upstream_section, generate_changelog.     *)
(***************************************************************************)
\* re.sub(FEDORA_PATTERN, "", v): every ".fc" followed by two digits is removed.
RECURSIVE StripFedora(_)
StripFedora(v) ==
    IF Len(v) < 5 THEN v
    ELSE IF v[1] = "." /\ v[2] = "f" /\ v[3] = "c" /\ IsDigit(v[4]) /\ IsDigit(v[5])
         THEN StripFedora(SubSeq(v, 6, Len(v)))
         ELSE <<v[1]>> \o StripFedora(Tail(v))

\* The keys of a dict keyed by image, in iteration order.
Keys(d) == SelectSeq(DictOrder, LAMBDA k : k \in DOMAIN d)

\* get_versions: the packages of all images in one map (a later image overwrites
\* an earlier one), each version without its Fedora suffix.
get_versions(ms) ==
    LET ps == get_packages(ms)
        ks == Keys(ps)
        last(n) == ps[ks[CHOOSE k \in 1..Len(ks) :
                            /\ n \in DOMAIN ps[ks[k]]
                            /\ \A j \in (k + 1)..Len(ks) : n \notin DOMAIN ps[ks[j]]]]
    IN  [n \in UNION {DOMAIN ps[k] : k \in DOMAIN ps} |-> StripFedora(last(n)[n])]

\* A template's {pkgrel:<name>} placeholders after the replace loop: the version,
\* the pair previous/new, or the placeholder left as it is (None).
TemplatePkgs ==
    << kernel, BLACKLIST_VERSIONS[5], BLACKLIST_VERSIONS[2], BLACKLIST_VERSIONS[3],
       BLACKLIST_VERSIONS[4], <<"h", "h", "d">> >>

PkgRel(prev_versions, versions) ==
    [n \in Range(TemplatePkgs) |->
        IF n \notin DOMAIN versions THEN None
        ELSE IF n \notin DOMAIN prev_versions \/ prev_versions[n] = versions[n]
             THEN <<versions[n]>>
             ELSE <<prev_versions[n], versions[n]>>]

\* The label read by get_commits and generate_changelog; KeyError without it.
HasRevision(ms) == DOMAIN ms # {} /\ REVISION \in DOMAIN FirstValue(ms).Labels

\* subject.lower().startswith("merge")
IsMerge(commit) == StartsWith(commit.subject, <<"m", "e", "r", "g", "e">>)

\* get_commits: the rows of the commits section, or "" (no rows) without workdir,
\* after any exception, and when no commit is left.  printed is what "git log"
\* printed, or None when it failed.
get_commits(prv, ms, workdir, printed) ==
    IF ~workdir THEN << >>
    ELSE IF ~HasRevision(prv) \/ ~HasRevision(ms) \/ printed = None THEN << >>
    ELSE SelectSeq(printed[1], LAMBDA c : ~IsMerge(c))

\* "Created" of the manifest as the section shows it.
UpstreamCreated(first) ==
    IF "Created" \in DOMAIN first /\ first.Created \in {"iso", "unix"}
    THEN first.Created ELSE "unknown"

\* The part of get_upstream_section after both manifests are known.
UpstreamSectionOf(tgt, upstream_curr_, upstream_prev_) ==
    LET t == get_tags(tgt, upstream_curr_)
        prev_versions == get_versions(upstream_prev_)
        curr_versions == get_versions(upstream_curr_)
        names == sorted(DOMAIN prev_versions \cup DOMAIN curr_versions)
        chg == calculate_changes(names, prev_versions, curr_versions)
    IN  IF chg.raised \/ chg.out = << >> THEN None
        ELSE Some([upstream_tag |-> t.curr,
                   upstream_created |-> UpstreamCreated(FirstValue(upstream_curr_)),
                   pkgrel |-> PkgRel(prev_versions, curr_versions),
                   changes |-> chg.out])

\* re.sub(r"\.\d{1,2}$", "", curr)
StripPatch(s) ==
    IF Len(s) >= 2 /\ s[Len(s) - 1] = "." /\ IsDigit(s[Len(s)])
    THEN SubSeq(s, 1, Len(s) - 2)
    ELSE IF Len(s) >= 3 /\ s[Len(s) - 2] = "." /\ IsDigit(s[Len(s) - 1]) /\ IsDigit(s[Len(s)])
         THEN SubSeq(s, 1, Len(s) - 3)
         ELSE s

IsLower(c) == Ord(c) >= Ord("a") /\ Ord(c) <= Ord("z")

\* re.sub(r"^[a-z]+-", "", s): a leading run of lower-case letters and the "-" after it.
StripChannel(s) ==
    IF \E k \in 2..Len(s) : s[k] = "-" /\ \A j \in 1..(k - 1) : IsLower(s[j])
    THEN LET k == CHOOSE n \in 2..Len(s) : s[n] = "-" /\ \A j \in 1..(n - 1) : IsLower(s[j])
         IN  SubSeq(s, k + 1, Len(s))
    ELSE s

\* The generated title: the tag and the parts of "pretty".
Title(tgt, ms, cur) ==
    [tag |-> cur,
     channel |-> tgt,
     fedora |-> StripChannel(StripPatch(cur)),
     hash |-> IF HasRevision(ms) /\ tgt # stable
              THEN SubSeq(FirstValue(ms).Labels[REVISION], 1,
                          Min(7, Len(FirstValue(ms).Labels[REVISION])))
              ELSE << >>]

\* One section of package changes: present only when it has rows.
Section(rows) == IF rows = << >> THEN None ELSE Some(rows)

\* generate_changelog, given the commits rows and the upstream section.
generate_changelog(tgt, prv, ms, commits, upstream) ==
    LET g == get_package_groups(prv, ms)
        versions == get_versions(ms)
        prev_versions == get_versions(prv)
        t == get_tags(tgt, ms)
    IN  [title |-> Title(tgt, ms, t.curr),
         changelog |->
            [target |-> tgt, prev |-> t.prev, curr |-> t.curr,
             pkgrel |-> PkgRel(prev_versions, versions),
             commits |-> Section(commits),
             upstream |-> upstream,
             common |-> Section(calculate_changes(g.common, prev_versions, versions).out),
             others |-> [k \in Range(OTHER_NAMES) |->
                            Section(calculate_changes(g.others[k], prev_versions, versions).out)]]]

(***************************************************************************)
(* main, with what the registry and git may answer.                         *)
(***************************************************************************)
fc41(v) == v \o <<".", "f", "c", "4", "1">>

\* The version tags of a channel's images.
VersionTag(tgt, n) ==
    (IF tgt = stable THEN << >> ELSE tgt \o <<"-">>) \o <<"4", "1", ".">> \o <<n>>

\* The packages label of the downstream and upstream images.
CurrentPackages(image) ==
    IF image = IMAGES[2]
    THEN (kernel :> fc41(VersionPool[1]) @@ foo :> fc41(VersionPool[3])
          @@ bar :> fc41(VersionPool[4]) @@ baz :> fc41(VersionPool[6]))
    ELSE IF image = IMAGES[1]
         THEN (kernel :> fc41(VersionPool[1]) @@ foo :> fc41(VersionPool[3])
               @@ bar :> fc41(VersionPool[4]))
         ELSE (kernel :> fc41(VersionPool[1]) @@ foo :> fc41(VersionPool[3]))

PreviousPackages(image) == (kernel :> fc41(VersionPool[5]) @@ foo :> fc41(VersionPool[2]))

Revision(n) == <<"a", "b", "c", "d", "e", "f", "0", "1", "2">> \o <<n>>

Manifest(ts, packages, revision) ==
    [RepoTags |-> ts,
     Labels |-> (RECHUNK_INFO :> [json |-> TRUE, packages |-> packages]
                 @@ REVISION :> revision),
     Created |-> "iso"]

\* The same manifest with a packages label that is not JSON.
Unreadable(m) == [m EXCEPT !.Labels = (RECHUNK_INFO :> [json |-> FALSE] @@ @)]

\* The manifests the registry may serve for image:tag.
Registry(tgt, image, tag) ==
    LET all == {tgt, VersionTag(tgt, "1"), VersionTag(tgt, "2")}
        cur == Manifest(all, CurrentPackages(image), Revision("2"))
        one == Manifest({tgt, VersionTag(tgt, "2")}, CurrentPackages(image), Revision("2"))
        old == Manifest({VersionTag(tgt, "1")}, PreviousPackages(image), Revision("1"))
    IN  IF tag = tgt
        THEN {cur, one} \cup (IF image = UPSTREAM_IMAGE THEN {Unreadable(cur)} ELSE {})
        ELSE {old} \cup (IF image = UPSTREAM_IMAGE THEN {Unreadable(old)} ELSE {})

\* What one call inspect_image(registry + image + ":" + tag) may return: None
\* after RETRIES failed attempts or unparsable output, else the manifest.
inspect_image(tgt, image, tag) == {None} \cup {Some(m) : m \in Registry(tgt, image, tag)}

\* get_manifests, given what inspect_image returned for every image.
get_manifests(results) ==
    [img \in {k \in DOMAIN results : results[k] # None} |-> results[img][1]]

\* get_upstream_manifests, given what inspect_image returned.
get_upstream_manifests(result) ==
    IF result # None THEN (UPSTREAM_IMAGE :> result[1]) ELSE << >>

\* The references get_manifests inspects, in order.
ImageRefs(tag) == [k \in 1..Len(IMAGES) |-> Ref(REGISTRY, IMAGES[k], tag)]

UpstreamRef(tag) == Ref(UPSTREAM_REGISTRY, UPSTREAM_IMAGE, tag)

Commit(subject) == [hash |-> Revision("2"), short |-> SubSeq(Revision("2"), 1, 7),
                    author |-> <<"d", "e", "v">>, subject |-> subject]

\* What "git log" may print.
GitLogs ==
    { << >>,
      << Commit(<<"f", "i", "x">>), Commit(<<"m", "e", "r", "g", "e", "-", "p", "r">>) >> }

Init ==
    /\ pc = "main_get_manifests"
    /\ target \in Targets
    /\ args \in [output : BOOLEAN, changelog : BOOLEAN, workdir : BOOLEAN]
    /\ manifests = << >> /\ prev_manifests = << >> /\ tags = None
    /\ upstream_curr_manifests = << >> /\ upstream_prev_manifests = << >>
    /\ upstream_curr = << >> /\ upstream_prev = << >>
    /\ git = None /\ generated = None /\ files = << >> /\ inspected = << >>
    /\ groups = None
    /\ IdleDiff /\ IdleInspect

varsIdleInMain == <<varsDiff, varsInspect, groups>>

\* manifests = get_manifests(target)
MainGetManifests ==
    /\ pc = "main_get_manifests"
    /\ \E results \in [Range(IMAGES) -> UNION {inspect_image(target, im, target) : im \in Range(IMAGES)}] :
          /\ \A im \in Range(IMAGES) : results[im] \in inspect_image(target, im, target)
          /\ manifests' = get_manifests(results)
    /\ inspected' = inspected \o ImageRefs(target)
    /\ pc' = "main_get_tags"
    /\ UNCHANGED <<target, args, prev_manifests, tags, upstream_curr_manifests,
                   upstream_prev_manifests, upstream_curr, upstream_prev, git, generated,
                   files, varsIdleInMain>>

\* prev, curr = get_tags(target, manifests)
MainGetTags ==
    /\ pc = "main_get_tags"
    /\ get_tags(target, manifests).ok
    /\ tags' = get_tags(target, manifests)
    /\ pc' = "main_get_prev_manifests"
    /\ UNCHANGED <<target, args, manifests, prev_manifests, upstream_curr_manifests,
                   upstream_prev_manifests, upstream_curr, upstream_prev, git, generated,
                   files, inspected, varsIdleInMain>>

\* The same statement raising: the exception leaves main.
MainGetTagsRaises ==
    /\ pc = "main_get_tags"
    /\ ~get_tags(target, manifests).ok
    /\ tags' = get_tags(target, manifests)
    /\ pc' = "main_raised"
    /\ UNCHANGED <<target, args, manifests, prev_manifests, upstream_curr_manifests,
                   upstream_prev_manifests, upstream_curr, upstream_prev, git, generated,
                   files, inspected, varsIdleInMain>>

\* prev_manifests = get_manifests(prev)
MainGetPrevManifests ==
    /\ pc = "main_get_prev_manifests"
    /\ \E results \in [Range(IMAGES) -> UNION {inspect_image(target, im, tags.prev) : im \in Range(IMAGES)}] :
          /\ \A im \in Range(IMAGES) : results[im] \in inspect_image(target, im, tags.prev)
          /\ prev_manifests' = get_manifests(results)
    /\ inspected' = inspected \o ImageRefs(tags.prev)
    /\ pc' = "main_get_upstream"
    /\ UNCHANGED <<target, args, manifests, tags, upstream_curr_manifests,
                   upstream_prev_manifests, upstream_curr, upstream_prev, git, generated,
                   files, varsIdleInMain>>

\* upstream_curr_manifests = get_upstream_manifests(target), and the test and the
\* get_tags call that decide whether the previous upstream manifest is fetched.
MainGetUpstream ==
    /\ pc = "main_get_upstream"
    /\ \E result \in inspect_image(target, UPSTREAM_IMAGE, target) :
          /\ upstream_curr_manifests' = get_upstream_manifests(result)
          /\ pc' = IF DOMAIN upstream_curr_manifests' # {}
                      /\ get_tags(target, upstream_curr_manifests').ok
                   THEN "main_get_upstream_prev" ELSE "main_generate"
    /\ inspected' = Append(inspected, UpstreamRef(target))
    /\ UNCHANGED <<target, args, manifests, prev_manifests, tags, upstream_prev_manifests,
                   upstream_curr, upstream_prev, git, generated, files, varsIdleInMain>>

\* upstream_prev_manifests = get_upstream_manifests(upstream_prev_tag)
MainGetUpstreamPrev ==
    /\ pc = "main_get_upstream_prev"
    /\ LET upstream_prev_tag == get_tags(target, upstream_curr_manifests).prev
       IN  /\ \E result \in inspect_image(target, UPSTREAM_IMAGE, upstream_prev_tag) :
                 upstream_prev_manifests' = get_upstream_manifests(result)
           /\ inspected' = Append(inspected, UpstreamRef(upstream_prev_tag))
    /\ pc' = "main_generate"
    /\ UNCHANGED <<target, args, manifests, prev_manifests, tags, upstream_curr_manifests,
                   upstream_curr, upstream_prev, git, generated, files, varsIdleInMain>>

\* title, changelog = generate_changelog(...): get_commits runs git, then
\* get_upstream_section fetches whichever upstream manifest it was handed empty,
\* selects the upstream tags and builds its section.
MainGenerate ==
    /\ pc = "main_generate"
    /\ \E g \in IF args.workdir /\ HasRevision(prev_manifests) /\ HasRevision(manifests)
                THEN {None} \cup {Some(l) : l \in GitLogs} ELSE {None} :
       \E rc \in IF DOMAIN upstream_curr_manifests = {}
                 THEN inspect_image(target, UPSTREAM_IMAGE, target) ELSE {None} :
          LET uc == IF DOMAIN upstream_curr_manifests # {} THEN upstream_curr_manifests
                    ELSE get_upstream_manifests(rc)
              t == get_tags(target, uc)
              refetch == t.ok /\ DOMAIN upstream_prev_manifests = {}
          IN  \E rp \in IF refetch THEN inspect_image(target, UPSTREAM_IMAGE, t.prev)
                        ELSE {None} :
                 LET up == IF ~t.ok THEN << >>
                           ELSE IF DOMAIN upstream_prev_manifests # {}
                                THEN upstream_prev_manifests
                                ELSE get_upstream_manifests(rp)
                     section == IF t.ok THEN UpstreamSectionOf(target, uc, up) ELSE None
                 IN  /\ git' = g
                     /\ upstream_curr' = uc
                     /\ upstream_prev' = up
                     /\ inspected' = inspected
                           \o (IF DOMAIN upstream_curr_manifests = {}
                               THEN <<UpstreamRef(target)>> ELSE << >>)
                           \o (IF refetch THEN <<UpstreamRef(t.prev)>> ELSE << >>)
                     /\ generated' = generate_changelog(
                                        target, prev_manifests, manifests,
                                        get_commits(prev_manifests, manifests, args.workdir, g),
                                        section)
    /\ pc' = "main_write"
    /\ UNCHANGED <<target, args, manifests, prev_manifests, tags, upstream_curr_manifests,
                   upstream_prev_manifests, files, varsIdleInMain>>

\* The two optional files are written and main returns.
MainWrite ==
    /\ pc = "main_write"
    /\ files' = [f \in (IF args.changelog THEN {"changelog"} ELSE {})
                       \cup (IF args.output THEN {"output"} ELSE {}) |->
                    IF f = "changelog" THEN generated.changelog
                    ELSE [TITLE |-> generated.title, TAG |-> tags.curr]]
    /\ pc' = "main_done"
    /\ UNCHANGED <<target, args, manifests, prev_manifests, tags, upstream_curr_manifests,
                   upstream_prev_manifests, upstream_curr, upstream_prev, git, generated,
                   inspected, varsIdleInMain>>

Next ==
    \/ MainGetManifests
    \/ MainGetTags
    \/ MainGetTagsRaises
    \/ MainGetPrevManifests
    \/ MainGetUpstream
    \/ MainGetUpstreamPrev
    \/ MainGenerate
    \/ MainWrite

Spec == Init /\ [][Next]_vars

(***************************************************************************)
(* Properties of the tag selector (SpecTags).                               *)
(***************************************************************************)
\* C1: whenever get_tags returns a pair for a non-empty collection of manifests,
\* previous sorts strictly before current, neither ends in ".0", both match the
\* channel's start pattern, and both are in RepoTags of every manifest.
C1_TagPair ==
    pc = "tags_done" =>
        /\ DOMAIN manifests # {}
        /\ StrLess(tags.prev, tags.curr)
        /\ \A t \in {tags.prev, tags.curr} :
              /\ ~EndsWith(t, <<".", "0">>)
              /\ IF target = stable
                 THEN STABLE_START_PATTERN(t)
                 ELSE StartsWith(t, target \o <<"-">>)
                      /\ STABLE_START_PATTERN(SubSeq(t, Len(target) + 2, Len(t)))
              /\ \A k \in DOMAIN manifests : t \in manifests[k].RepoTags

\* A pair returned for two manifests, the first of which carries a qualifying tag
\* that the second one lacks.
C1_Witness ==
    /\ pc = "tags_done"
    /\ DOMAIN manifests = Range(IMAGES)
    /\ \E t \in ReferenceTags(target, manifests[IMAGES[1]]) : t \notin manifests[IMAGES[2]].RepoTags

\* The version a tag stands for: the channel prefix dropped, the dotted numbers read.
RECURSIVE ToInt(_)
ToInt(ds) ==
    IF ds = << >> THEN 0
    ELSE 10 * ToInt(SubSeq(ds, 1, Len(ds) - 1)) + (Ord(ds[Len(ds)]) - Ord("0"))

RECURSIVE SplitDots(_)
SplitDots(s) ==
    IF \A k \in 1..Len(s) : s[k] # "." THEN <<s>>
    ELSE LET d == CHOOSE k \in 1..Len(s) : s[k] = "." /\ \A j \in 1..(k - 1) : s[j] # "."
         IN  <<SubSeq(s, 1, d - 1)>> \o SplitDots(SubSeq(s, d + 1, Len(s)))

VersionOf(tgt, tag) ==
    LET body == IF tgt = stable THEN tag ELSE SubSeq(tag, Len(tgt) + 2, Len(tag))
        parts == SplitDots(body)
    IN  [k \in 1..Len(parts) |-> ToInt(parts[k])]

VersionLess(a, b) ==
    \E k \in 0..Min(Len(a), Len(b)) :
        /\ \A j \in 1..k : a[j] = b[j]
        /\ \/ k = Len(a) /\ k < Len(b)
           \/ k < Len(a) /\ k < Len(b) /\ a[k + 1] < b[k + 1]

Qualifying == CommonTags(ReferenceTags(target, FirstValue(manifests)), manifests)

\* C2: the qualifying tags are ordered by their numeric version: current is the
\* numerically highest, previous the next highest; with 23.9, 23.10 and 23.10.0
\* common to the manifests of channel stable the pair is (23.9, 23.10).
C2_NumericOrder ==
    pc = "tags_done" =>
        /\ VersionLess(VersionOf(target, tags.prev), VersionOf(target, tags.curr))
        /\ \A t \in Qualifying \ {tags.prev, tags.curr} :
              VersionLess(VersionOf(target, t), VersionOf(target, tags.prev))
        /\ (target = stable /\ Qualifying = {TagPool[1], TagPool[2]})
              => (tags.prev = TagPool[1] /\ tags.curr = TagPool[2])

(***************************************************************************)
(* Properties of the diff engine (SpecDiff).                                *)
(***************************************************************************)
Anchors == Range(BLACKLIST_VERSIONS)

Reported == Range(changes.added) \cup Range(changes.changed) \cup Range(changes.removed)

NoRepeats(s) == \A a, b \in 1..Len(s) : s[a] = s[b] => a = b

\* C3: the reported sequences are pairwise disjoint and free of repeats, hold only
\* names of the universe, and hold neither an anchor package nor a package whose
\* current version is the current version of an anchor package.
C3_Partition ==
    pc = "changes_done" =>
        /\ NoRepeats(changes.added \o changes.changed \o changes.removed)
        /\ Reported \subseteq Range(pkgs)
        /\ Reported \cap Anchors = {}
        /\ \A p \in Reported, a \in Anchors :
              (p \in DOMAIN curr /\ a \in DOMAIN curr) => curr[p] # curr[a]
        /\ [k \in 1..Len(changes.out) |-> changes.out[k].name]
              = changes.added \o changes.changed \o changes.removed

\* A universe that repeats a reported name and holds a changed package that is
\* left out because its current version is the kernel's.
C3_Witness ==
    /\ pc = "changes_done"
    /\ \E a, b \in 1..Len(pkgs) : a < b /\ pkgs[a] = pkgs[b] /\ pkgs[a] \in Reported
    /\ \E p \in Range(pkgs) \ Anchors :
          /\ p \in DOMAIN curr /\ kernel \in DOMAIN curr /\ curr[p] = curr[kernel]
          /\ p \in DOMAIN prev /\ prev[p] # curr[p]

FirstPos(n) == CHOOSE k \in 1..Len(pkgs) : pkgs[k] = n /\ \A j \in 1..(k - 1) : pkgs[j] # n

Rank(mark) == IF mark = "add" THEN 1 ELSE IF mark = "change" THEN 2 ELSE 3

\* C4: the text lists the added rows, then the changed rows, then the removed rows,
\* each group in universe order.
C4_GroupOrder ==
    pc = "changes_done" =>
        /\ Len(changes.out) = Len(changes.added) + Len(changes.changed) + Len(changes.removed)
        /\ \A a, b \in 1..Len(changes.out) :
              a < b =>
                 /\ Rank(changes.out[a].mark) <= Rank(changes.out[b].mark)
                 /\ changes.out[a].mark = changes.out[b].mark
                       => FirstPos(changes.out[a].name) < FirstPos(changes.out[b].name)
        /\ \A k \in 1..Len(changes.out) :
              /\ changes.out[k].mark = "add" <=> changes.out[k].name \in Range(changes.added)
              /\ changes.out[k].mark = "change" <=> changes.out[k].name \in Range(changes.changed)
              /\ changes.out[k].mark = "remove" <=> changes.out[k].name \in Range(changes.removed)

\* The universe [baz, bar, foo] with baz removed, bar changed and foo new: the text
\* lists foo, bar, baz.
C4_Witness ==
    /\ pc = "changes_done"
    /\ pkgs = <<baz, bar, foo>>
    /\ [k \in 1..Len(changes.out) |-> <<changes.out[k].mark, changes.out[k].name>>]
          = << <<"add", foo>>, <<"change", bar>>, <<"remove", baz>> >>

\* Position k of the universe reached the classification (it was not skipped).
ClassifiedAt(k) ==
    ~Skipped(pkgs[k], prev, curr, Loop(pkgs, prev, curr, k - 1).blacklist_ver)

\* Position k of the universe was appended to one of the three lists.
ReportedAt(k) == ClassifiedAt(k) /\ Classify(pkgs[k], prev, curr) # "unreported"

VersionsOf(p) ==
    (IF p \in DOMAIN curr THEN {curr[p]} ELSE {}) \cup (IF p \in DOMAIN prev THEN {prev[p]} ELSE {})

Shares(p, q) == VersionsOf(p) \cap VersionsOf(q) # {}

\* Once a package was classified, no later package sharing a version is reported.
SuppressedAfterClassified ==
    \A a, b \in 1..Len(pkgs) :
        (a < b /\ ClassifiedAt(a) /\ Shares(pkgs[a], pkgs[b])) => ~ReportedAt(b)

\* No two rows show the same new version.
OnePerNewVersion ==
    \A a, b \in 1..Len(changes.out) :
        (a # b /\ changes.out[a].new # << >>) => changes.out[a].new # changes.out[b].new

\* C10 as stated: later packages sharing a version of a classified package are not
\* reported, no two rows show the same new version, and of the packages sharing
\* a version the reported one is the first in universe order.
C10_FirstOfSharers ==
    pc = "changes_done" =>
        /\ SuppressedAfterClassified
        /\ OnePerNewVersion
        /\ \A a, b \in 1..Len(pkgs) :
              (a < b /\ pkgs[a] \notin Anchors /\ Shares(pkgs[a], pkgs[b])) => ~ReportedAt(b)

\* C10 amended: later packages sharing a version of a classified package are not
\* reported and no two rows show the same new version; a skipped package
\* suppresses nothing, so the reported one of several sharers is the first that
\* was not itself skipped.
C10_FirstClassifiedOfSharers ==
    pc = "changes_done" =>
        /\ SuppressedAfterClassified
        /\ OnePerNewVersion
        /\ \A b \in 1..Len(pkgs) :
              ReportedAt(b) =>
                 \A a \in 1..(b - 1) : Shares(pkgs[a], pkgs[b]) => ~ClassifiedAt(a)

\* A classified, unreported package followed by a changed package with the same
\* current version, which is left out; and a skipped package followed by a
\* reported one with the same current version.
C10_Witness ==
    /\ pc = "changes_done"
    /\ \E a, b \in 1..Len(pkgs) :
          /\ a < b /\ ClassifiedAt(a) /\ ~ReportedAt(b)
          /\ pkgs[a] # pkgs[b] /\ Shares(pkgs[a], pkgs[b])
          /\ Classify(pkgs[b], prev, curr) = "changed"
    /\ \E a, b \in 1..Len(pkgs) :
          /\ a < b /\ ~ClassifiedAt(a) /\ pkgs[a] \notin Anchors /\ ReportedAt(b)
          /\ Shares(pkgs[a], pkgs[b])

(***************************************************************************)
(* Properties of the group reconciler (SpecGroups).                         *)
(***************************************************************************)
GroupSet(t) == Range(groups.others[t])

CommonSet == Range(groups.common)

AllUniverses ==
    LET pkg == Universes(prev_manifests, manifests)
    IN  UNION {pkg[k] : k \in DOMAIN pkg}

\* C5: the common set and the group sets are pairwise disjoint, and together they
\* hold only names of the variants' universes.
C5_GroupsDisjoint ==
    pc = "groups_done" =>
        /\ \A t \in Range(OTHER_NAMES) : GroupSet(t) \cap CommonSet = {}
        /\ \A t, u \in Range(OTHER_NAMES) : t # u => GroupSet(t) \cap GroupSet(u) = {}
        /\ CommonSet \cup UNION {GroupSet(t) : t \in Range(OTHER_NAMES)} \subseteq AllUniverses

\* Both images are listed, with different universes and a non-empty common set.
C5_Witness ==
    /\ pc = "groups_done"
    /\ DOMAIN Universes(prev_manifests, manifests) = Range(IMAGES)
    /\ CommonSet # {}
    /\ \E p \in AllUniverses : p \notin CommonSet
    /\ \E k \in DOMAIN manifests : ~PackagesReadable(manifests[k])

\* The variants a group is about: desktop and deck by base, kde by desktop
\* environment, nvidia the GPU-vendor image.
GroupVariants(t) ==
    {k \in 1..Len(IMAGES) :
        /\ IMAGES[k] \in DOMAIN Universes(prev_manifests, manifests)
        /\ \/ t = "desktop" /\ get_images[k].base # deck
           \/ t = "deck" /\ get_images[k].base = deck
           \/ t = "kde" /\ get_images[k].de = kde
           \/ t = "nvidia" /\ Contains(IMAGES[k], nvidia)}

\* C9: every group set is the intersection of the universes of the variants the
\* group is about, minus the common set, and empty when there is no such variant;
\* with {x, y} for one variant and {x, z} for the nvidia variant, common is {x} and
\* the nvidia group is {z}.
C9_GroupIsIntersection ==
    pc = "groups_done" =>
        LET pkg == Universes(prev_manifests, manifests)
        IN  \A t \in Range(OTHER_NAMES) :
               GroupSet(t) =
                  IF GroupVariants(t) = {} THEN {}
                  ELSE {p \in AllUniverses :
                           \A k \in GroupVariants(t) : p \in pkg[IMAGES[k]]} \ CommonSet

(***************************************************************************)
(* Properties of the manifest store adapter (SpecInspect).                  *)
(***************************************************************************)
Attempts == {k \in 1..Len(log) : log[k].call = "skopeo"}

Sleeps == {k \in 1..Len(log) : log[k].call = "sleep"}

\* C8: a call makes at most RETRIES attempts; nothing follows a successful
\* attempt; every sleep lasts RETRY_WAIT and stands between a failed attempt and
\* a further attempt; a call that ends returns the parsed output of its
\* successful attempt, or None after RETRIES failed attempts.
C8_BoundedRetry ==
    /\ Cardinality(Attempts) <= RETRIES
    /\ \A k \in Attempts : log[k].arg = 0 => k = Len(log)
    /\ \A k \in Sleeps :
          /\ log[k].arg = RETRY_WAIT
          /\ k > 1 /\ log[k - 1] = SkopeoCall(1)
          /\ k < Len(log) => log[k + 1].call = "skopeo"
    /\ \A k \in Attempts : (k < Len(log) /\ log[k].arg = 1) => log[k + 1] = SleepCall
    /\ pc \in {"inspect_return", "inspect_done"} =>
          /\ log # << >> /\ log[Len(log)].call = "skopeo"
          /\ (log[Len(log)].arg = 1) <=> (output = None)
          /\ output = None => Cardinality(Attempts) = RETRIES
    /\ pc = "inspect_done" =>
          ret = IF output # None /\ output[1].json THEN Some(output[1].manifest) ELSE None

\* A call whose RETRIES attempts all failed, with a sleep between them, returned None.
C8_Witness ==
    /\ pc = "inspect_done"
    /\ log = <<SkopeoCall(1), SleepCall, SkopeoCall(1), SleepCall, SkopeoCall(1)>>
    /\ ret = None

(***************************************************************************)
(* Properties of main (Spec).                                               *)
(***************************************************************************)
Rendered == pc \in {"main_write", "main_done"}

\* inspect_image returned None for a downstream image, for the channel or for the
\* previous tag.
DownstreamUnavailable ==
    \/ pc # "main_get_manifests" /\ DOMAIN manifests # Range(IMAGES)
    \/ pc \in {"main_get_upstream", "main_get_upstream_prev", "main_generate",
               "main_write", "main_done"}
       /\ DOMAIN prev_manifests # Range(IMAGES)

\* C6: when the downstream tag selection fails or a downstream manifest is
\* unavailable, nothing is rendered and no file is written.
C6_DownstreamFailureIsFatal ==
    (pc = "main_raised" \/ DownstreamUnavailable) => (~Rendered /\ DOMAIN files = {})

\* A sub-step of the upstream comparison failed: no current manifest, no tag pair,
\* no previous manifest, or a packages label that cannot be read.
UpstreamStepFailed ==
    \/ DOMAIN upstream_curr = {}
    \/ ~get_tags(target, upstream_curr).ok
    \/ DOMAIN upstream_prev = {}
    \/ \E k \in DOMAIN upstream_curr : ~PackagesReadable(upstream_curr[k])
    \/ \E k \in DOMAIN upstream_prev : ~PackagesReadable(upstream_prev[k])

\* C7: once the downstream steps succeeded the run renders; a failed upstream
\* sub-step leaves the upstream section out, a failed commit retrieval leaves the
\* commits section out.
C7_FailedSectionOmitted ==
    Rendered =>
        /\ UpstreamStepFailed => generated.changelog.upstream = None
        /\ (args.workdir /\ git = None) => generated.changelog.commits = None

\* The positions of the inspect_image calls made for an upstream reference.
UpstreamInspections ==
    {k \in 1..Len(inspected) : StartsWith(inspected[k], UPSTREAM_REGISTRY \o UPSTREAM_IMAGE)}

\* C11: in one run no upstream reference is passed to inspect_image twice,
\* whether its fetch succeeded or returned None.
C11_UpstreamFetchedOnce ==
    \A a, b \in UpstreamInspections : a # b => inspected[a] # inspected[b]

====
